---------------------------- MODULE Spec2Model ----------------------------
(***************************************************************************)
(* Model of actix_htpasswd: the htpasswd credential store                  *)
(* (src/src/htpasswd_database.rs), the Basic-Auth header parser            *)
(* (src/src/auth_data.rs), the user control policies                       *)
(* (src/src/user_control_policy.rs) and the access control gate            *)
(* (src/src/auth_control.rs).                                              *)
(*                                                                         *)
(* Text is a sequence of character codes (a Rust String is a sequence of   *)
(* Unicode scalar values, a header value or a digest a sequence of bytes). *)
(***************************************************************************)
EXTENDS Integers, Sequences, FiniteSets, TLC

(***************************************************************************)
(* Sequence helpers                                                        *)
(***************************************************************************)
Range(s) == {s[i] : i \in 1..Len(s)}

\* s[from..] (1-based), the empty sequence when from is past the end
Drop(s, from) == SubSeq(s, from, Len(s))

\* s[..upto]
Take(s, upto) == SubSeq(s, 1, upto)

\* the least 1-based index of character c in s, 0 when s does not hold it
IndexOf(s, c) ==
    IF \E i \in 1..Len(s) : s[i] = c
    THEN CHOOSE i \in 1..Len(s) : s[i] = c /\ \A j \in 1..(i - 1) : s[j] # c
    ELSE 0

\* pat occurs in s at 1-based position i
OccursAt(s, pat, i) ==
    /\ i + Len(pat) - 1 <= Len(s)
    /\ \A k \in 1..Len(pat) : s[i + k - 1] = pat[k]

\* the least position >= from where pat occurs in s, 0 when there is none
FindFrom(s, pat, from) ==
    IF \E i \in from..Len(s) : OccursAt(s, pat, i)
    THEN CHOOSE i \in from..Len(s) :
            /\ OccursAt(s, pat, i)
            /\ \A j \in from..(i - 1) : ~OccursAt(s, pat, j)
    ELSE 0

(***************************************************************************)
(* str::splitn(2, c): the part before the first c and, when there is a c,  *)
(* the remainder after it.  The first part always exists.                  *)
(***************************************************************************)
SplitN2(s, c) ==
    LET i == IndexOf(s, c) IN
    IF i = 0 THEN <<s>> ELSE <<Take(s, i - 1), Drop(s, i + 1)>>

(***************************************************************************)
(* str::split(pat): the parts between the non-overlapping occurrences of   *)
(* pat, searched left to right; one part more than there are occurrences.  *)
(***************************************************************************)
RECURSIVE Split(_, _)
Split(s, pat) ==
    LET i == FindFrom(s, pat, 1) IN
    IF i = 0 THEN <<s>>
    ELSE <<Take(s, i - 1)>> \o Split(Drop(s, i + Len(pat)), pat)

(***************************************************************************)
(* char::is_whitespace (the Unicode White_Space property) and str::trim    *)
(***************************************************************************)
IsWhitespace(c) ==
    \/ c \in 9..13
    \/ c \in {32, 133, 160, 5760, 8232, 8233, 8239, 8287, 12288}
    \/ c \in 8192..8202

RECURSIVE TrimStart(_)
TrimStart(s) ==
    IF s # <<>> /\ IsWhitespace(Head(s)) THEN TrimStart(Tail(s)) ELSE s

RECURSIVE TrimEnd(_)
TrimEnd(s) ==
    IF s # <<>> /\ IsWhitespace(s[Len(s)]) THEN TrimEnd(Take(s, Len(s) - 1)) ELSE s

Trim(s) == TrimEnd(TrimStart(s))

(***************************************************************************)
(* base64::decode / base64::encode with the standard alphabet.             *)
(* Decoding fails on a symbol outside the alphabet, on padding anywhere    *)
(* but after the second symbol of the last quadruple, on a length that     *)
(* leaves a lone symbol and on non-zero trailing bits; the padding may be  *)
(* left out or short.                                                      *)
(***************************************************************************)
PadChar == 61

B64Value(c) ==
    IF c \in 65..90 THEN c - 65
    ELSE IF c \in 97..122 THEN c - 71
    ELSE IF c \in 48..57 THEN c + 4
    ELSE IF c = 43 THEN 62
    ELSE IF c = 47 THEN 63
    ELSE -1

B64Char(v) ==
    IF v < 26 THEN v + 65
    ELSE IF v < 52 THEN v + 71
    ELSE IF v < 62 THEN v - 4
    ELSE IF v = 62 THEN 43
    ELSE 47

\* the number of trailing padding characters of s
RECURSIVE PadCount(_)
PadCount(s) ==
    IF s # <<>> /\ s[Len(s)] = PadChar THEN 1 + PadCount(Take(s, Len(s) - 1)) ELSE 0

\* v: a sequence of 6-bit values whose length is not 1 modulo 4
RECURSIVE B64Bytes(_)
B64Bytes(v) ==
    IF Len(v) = 0 THEN <<>>
    ELSE IF Len(v) = 2 THEN <<v[1] * 4 + v[2] \div 16>>
    ELSE IF Len(v) = 3
         THEN <<v[1] * 4 + v[2] \div 16, (v[2] % 16) * 16 + v[3] \div 4>>
    ELSE <<v[1] * 4 + v[2] \div 16,
           (v[2] % 16) * 16 + v[3] \div 4,
           (v[3] % 4) * 64 + v[4]>> \o B64Bytes(Drop(v, 5))

Base64Decode(s) ==
    LET pad  == PadCount(s)
        body == Take(s, Len(s) - pad)
        v    == [i \in 1..Len(body) |-> B64Value(body[i])]
        rem  == Len(body) % 4
    IN  IF \/ \E i \in 1..Len(v) : v[i] < 0
           \/ rem = 1
           \/ pad > 0 /\ (rem < 2 \/ rem + pad > 4)
           \/ rem = 2 /\ v[Len(v)] % 16 # 0
           \/ rem = 3 /\ v[Len(v)] % 4 # 0
        THEN [ok |-> FALSE, bytes |-> <<>>]
        ELSE [ok |-> TRUE, bytes |-> B64Bytes(v)]

RECURSIVE Base64Encode(_)
Base64Encode(b) ==
    IF Len(b) = 0 THEN <<>>
    ELSE IF Len(b) = 1
         THEN <<B64Char(b[1] \div 4), B64Char((b[1] % 4) * 16), PadChar, PadChar>>
    ELSE IF Len(b) = 2
         THEN <<B64Char(b[1] \div 4),
                B64Char((b[1] % 4) * 16 + b[2] \div 16),
                B64Char((b[2] % 16) * 4),
                PadChar>>
    ELSE <<B64Char(b[1] \div 4),
           B64Char((b[1] % 4) * 16 + b[2] \div 16),
           B64Char((b[2] % 16) * 4 + b[3] \div 64),
           B64Char(b[3] % 64)>> \o Base64Encode(Drop(b, 4))

(***************************************************************************)
(* String::from_utf8_lossy: well-formed UTF-8 sequences become their       *)
(* scalar value, every maximal ill-formed prefix becomes U+FFFD.           *)
(***************************************************************************)
ReplacementChar == 65533

IsCont(b, i) == i <= Len(b) /\ b[i] \in 128..191

\* <<scalar value, bytes consumed>> for the sequence starting b (b # <<>>)
Utf8Step(b) ==
    LET b1 == b[1]
        lo == IF b1 = 224 THEN 160 ELSE IF b1 = 240 THEN 144 ELSE 128
        hi == IF b1 = 237 THEN 159 ELSE IF b1 = 244 THEN 143 ELSE 191
        ok2 == Len(b) >= 2 /\ b[2] \in lo..hi
    IN  IF b1 < 128 THEN <<b1, 1>>
        ELSE IF b1 \in 194..223
             THEN IF ok2 THEN <<(b1 - 192) * 64 + (b[2] - 128), 2>>
                  ELSE <<ReplacementChar, 1>>
        ELSE IF b1 \in 224..239
             THEN IF ~ok2 THEN <<ReplacementChar, 1>>
                  ELSE IF ~IsCont(b, 3) THEN <<ReplacementChar, 2>>
                  ELSE <<(b1 - 224) * 4096 + (b[2] - 128) * 64 + (b[3] - 128), 3>>
        ELSE IF b1 \in 240..244
             THEN IF ~ok2 THEN <<ReplacementChar, 1>>
                  ELSE IF ~IsCont(b, 3) THEN <<ReplacementChar, 2>>
                  ELSE IF ~IsCont(b, 4) THEN <<ReplacementChar, 3>>
                  ELSE <<(b1 - 240) * 262144 + (b[2] - 128) * 4096
                            + (b[3] - 128) * 64 + (b[4] - 128), 4>>
        ELSE <<ReplacementChar, 1>>

RECURSIVE FromUtf8Lossy(_)
FromUtf8Lossy(b) ==
    IF b = <<>> THEN <<>>
    ELSE LET st == Utf8Step(b) IN <<st[1]>> \o FromUtf8Lossy(Drop(b, st[2] + 1))

(***************************************************************************)
(* Texts that the code or the inputs name                                  *)
(***************************************************************************)
ShaSeparator == <<58, 123, 83, 72, 65, 125>>            \* ":{SHA}"
BasicScheme  == <<66, 97, 115, 105, 99>>                \* "Basic"
Space        == 32
Colon        == 58
Admin        == <<97, 100, 109, 105, 110>>              \* "admin"
Bob          == <<98, 111, 98>>                         \* "bob"
Alice        == <<97, 108, 105, 99, 101>>               \* "alice"
Carol        == <<99, 97, 114, 111, 108>>               \* "carol"
Hunter2      == <<104, 117, 110, 116, 101, 114, 50>>    \* "hunter2"
Secret       == <<115, 101, 99, 114, 101, 116>>         \* "secret"
WrongPass    == <<119, 114, 111, 110, 103, 112, 97, 115, 115>>  \* "wrongpass"
ColonPass    == <<113, 58, 114>>                        \* "q:r"
EmptyText    == <<>>
LossyPass    == <<ReplacementChar>>                     \* "\u{FFFD}"

(***************************************************************************)
(* Sha1::new().input(password).result(): the SHA-1 digest of the UTF-8     *)
(* bytes of the password, tabulated for the passwords of the model.        *)
(***************************************************************************)
Sha1(password) ==
    CASE password = Hunter2 ->
           <<243, 187, 189, 102, 166, 61, 75, 241, 116, 121,
             64, 87, 142, 195, 208, 16, 53, 48, 226, 29>>
      [] password = Secret ->
           <<229, 233, 250, 27, 163, 30, 205, 26, 232, 79,
             117, 202, 170, 71, 79, 58, 102, 63, 5, 244>>
      [] password = WrongPass ->
           <<110, 182, 125, 149, 219, 161, 166, 20, 151, 30,
             49, 231, 129, 70, 212, 75, 212, 163, 173, 163>>
      [] password = EmptyText ->
           <<218, 57, 163, 238, 94, 107, 75, 13, 50, 85,
             191, 239, 149, 96, 24, 144, 175, 216, 7, 9>>
      [] password = LossyPass ->
           <<155, 219, 119, 39, 108, 24, 82, 225, 251, 6,
             120, 32, 71, 40, 18, 252, 246, 8, 64, 36>>
      [] password = ColonPass ->
           <<217, 201, 141, 137, 11, 2, 87, 15, 155, 35,
             166, 77, 139, 103, 15, 135, 200, 148, 6, 122>>

(***************************************************************************)
(* error.rs: enum Error.  An error is a record with its kind and the       *)
(* fields its variant carries.                                             *)
(***************************************************************************)
HeaderNotLongEnough         == [kind |-> "HeaderNotLongEnough"]
CannotConvertHeaderToString == [kind |-> "CannotConvertHeaderToString"]
UnsupportedScheme(scheme)   == [kind |-> "UnsupportedScheme", scheme |-> scheme]
MissingScheme               == [kind |-> "MissingScheme"]
MalformedCredentials        == [kind |-> "MalformedCredentials"]
CannotExtractUsername       == [kind |-> "CannotExtractUsername"]
CannotExtractPassword       == [kind |-> "CannotExtractPassword"]
EmptyPassword               == [kind |-> "EmptyPassword"]
CannotOpenHtpasswdFile(path_string) ==
    [kind |-> "CannotOpenHtpasswdFile", path_string |-> path_string]
CannotReadHtpasswdFile(path_string) ==
    [kind |-> "CannotReadHtpasswdFile", path_string |-> path_string]
MalformedHtpasswdLine(path_string, line) ==
    [kind |-> "MalformedHtpasswdLine", path_string |-> path_string, line |-> line]
InvalidPasswordString(path_string, line) ==
    [kind |-> "InvalidPasswordString", path_string |-> path_string, line |-> line]
DuplicateUser(user) == [kind |-> "DuplicateUser", user |-> user]

\* no error
NoError == [kind |-> "none"]

\* Result<T, Error>
Ok(value) == [ok |-> TRUE, value |-> value]
Err(error) == [ok |-> FALSE, error |-> error]

\* Option<T>
None == [some |-> FALSE]
Some(value) == [some |-> TRUE, value |-> value]

(***************************************************************************)
(* auth_data.rs: AuthData::from_request.  header is the Authorization      *)
(* header of the request: None, or Some(bytes of the header value).        *)
(* Result<Option<AuthData>, Error>.                                        *)
(***************************************************************************)
HeaderMinLen == 7

\* HeaderValue::to_str: text iff every byte is visible ASCII or a tab
HeaderToStr(bytes) ==
    IF \A i \in 1..Len(bytes) : bytes[i] \in 32..126 \/ bytes[i] = 9
    THEN Ok(bytes)
    ELSE Err(CannotConvertHeaderToString)

AuthData(user, password) == [user |-> user, password |-> password]

\* lines 36-60 without the rejection of the empty password of lines 52-54
CredentialsFromParts_keeps_empty(parts) ==
    IF Len(parts) < 2 THEN Err(MalformedCredentials)
    ELSE LET raw_user_password == Base64Decode(parts[2]) IN
         IF ~raw_user_password.ok THEN Err(MalformedCredentials)
         ELSE LET owned_user_password == FromUtf8Lossy(raw_user_password.bytes)
                  user_password == SplitN2(owned_user_password, Colon)
              IN  IF Len(user_password) < 1 THEN Err(CannotExtractUsername)
                  ELSE IF Len(user_password) < 2 THEN Err(CannotExtractPassword)
                  ELSE Ok(Some(AuthData(user_password[1], user_password[2])))

\* lines 36-60: from the text after the scheme on
CredentialsFromParts(parts) ==
    IF Len(parts) < 2 THEN Err(MalformedCredentials)
    ELSE LET raw_user_password == Base64Decode(parts[2]) IN
         IF ~raw_user_password.ok THEN Err(MalformedCredentials)
         ELSE LET owned_user_password == FromUtf8Lossy(raw_user_password.bytes)
                  user_password == SplitN2(owned_user_password, Colon)
              IN  IF Len(user_password) < 1 THEN Err(CannotExtractUsername)
                  ELSE IF Len(user_password) < 2 THEN Err(CannotExtractPassword)
                  ELSE IF user_password[2] = <<>> THEN Err(EmptyPassword)
                  ELSE Ok(Some(AuthData(user_password[1], user_password[2])))

AuthData_from_request(header) ==
    IF ~header.some THEN Ok(None)
    ELSE IF Len(header.value) < HeaderMinLen THEN Err(HeaderNotLongEnough)
    ELSE LET text == HeaderToStr(header.value) IN
         IF ~text.ok THEN text
         ELSE LET parts == SplitN2(text.value, Space) IN
              IF Len(parts) < 1 THEN Err(MissingScheme)
              ELSE IF parts[1] # BasicScheme THEN Err(UnsupportedScheme(parts[1]))
              ELSE CredentialsFromParts(parts)

(***************************************************************************)
(* htpasswd_database.rs: struct HtpasswdDatabase.  registered_users is a   *)
(* HashMap<String, Vec<u8>>: a function from the usernames it holds to     *)
(* their digests.                                                          *)
(***************************************************************************)
HtpasswdDatabase(registered_users) == [registered_users |-> registered_users]

\* HashMap::new()
EmptyMap == <<>>

\* HashMap::insert(key, value) on a map that does not hold key
Insert(map, key, value) == (key :> value) @@ map

\* HtpasswdDatabase::new
HtpasswdDatabase_new == HtpasswdDatabase(EmptyMap)

\* add that inserts without looking for the username first
HtpasswdDatabase_add_overwriting(self, user, sha1_password) ==
    <<HtpasswdDatabase([u \in DOMAIN self.registered_users \cup {user} |->
                           IF u = user THEN sha1_password ELSE self.registered_users[u]]),
      Ok(<<>>)>>

\* HtpasswdDatabase::add: <<the database afterwards, Result<(), Error>>>
HtpasswdDatabase_add(self, user, sha1_password) ==
    IF user \in DOMAIN self.registered_users
    THEN <<self, Err(DuplicateUser(user))>>
    ELSE <<HtpasswdDatabase(Insert(self.registered_users, user, sha1_password)),
           Ok(<<>>)>>

\* is_valid without the comparison of the digests
is_valid_any_password(self, auth_data) ==
    auth_data.user \in DOMAIN self.registered_users

\* HtpasswdDatabase::is_valid
is_valid(self, auth_data) ==
    IF auth_data.user \notin DOMAIN self.registered_users THEN FALSE
    ELSE LET sha1_password == Sha1(auth_data.password) IN
         sha1_password = self.registered_users[auth_data.user]

(***************************************************************************)
(* TryFrom<&Path> for HtpasswdDatabase.  A file is a path, whether it can  *)
(* be opened, and its lines as BufRead::lines yields them: each the text   *)
(* of the line, or an I/O error (a line that is not UTF-8).                *)
(***************************************************************************)
TextLine(text) == [io_error |-> FALSE, text |-> text]
UnreadableLine == [io_error |-> TRUE, text |-> <<>>]

\* what one turn of the loop does: go on with the map, or return the error
Continue(registered_users) ==
    [continue |-> TRUE, registered_users |-> registered_users, error |-> NoError]
Return(error) ==
    [continue |-> FALSE, registered_users |-> EmptyMap, error |-> error]

\* lines 111-118 with the duplicate check left out: the later line replaces the entry
InsertUser_overwriting(registered_users, user, sha1_password) ==
    Continue((user :> sha1_password) @@ registered_users)

\* lines 111-118: the duplicate check and the insertion
InsertUser(registered_users, user, sha1_password) ==
    IF user \in DOMAIN registered_users
    THEN Return(DuplicateUser(user))
    ELSE Continue(Insert(registered_users, user, sha1_password))

\* lines 93-99 reporting the line number 1-based
SplitLine_one_based(path_string, i, line) ==
    LET parts == Split(line, ShaSeparator) IN
    IF Len(parts) # 2
    THEN Err(MalformedHtpasswdLine(path_string, i + 1))
    ELSE Ok(parts)

\* lines 93-99: the parts of the line around ":{SHA}", which must be two
SplitLine(path_string, i, line) ==
    LET parts == Split(line, ShaSeparator) IN
    IF Len(parts) # 2
    THEN Err(MalformedHtpasswdLine(path_string, i))
    ELSE Ok(parts)

\* lines 78-118 storing the base64 text of the digest without decoding it
LoopBody_undecoded(path_string, i, line_res, registered_users) ==
    IF line_res.io_error THEN Return(CannotReadHtpasswdFile(path_string))
    ELSE LET line == Trim(line_res.text) IN
         IF line = <<>> THEN Continue(registered_users)
         ELSE LET parts == SplitLine(path_string, i, line) IN
              IF ~parts.ok THEN Return(parts.error)
              ELSE LET user == parts.value[1]
                       base64_sha1_password == parts.value[2]
                       sha1_password == Base64Decode(base64_sha1_password)
                   IN  IF ~sha1_password.ok
                       THEN Return(InvalidPasswordString(path_string, i))
                       ELSE InsertUser(registered_users, user, base64_sha1_password)

\* lines 78-118: the body of the loop for the line of 0-based index i
LoopBody(path_string, i, line_res, registered_users) ==
    IF line_res.io_error THEN Return(CannotReadHtpasswdFile(path_string))
    ELSE LET line == Trim(line_res.text) IN
         IF line = <<>> THEN Continue(registered_users)
         ELSE LET parts == SplitLine(path_string, i, line) IN
              IF ~parts.ok THEN Return(parts.error)
              ELSE LET user == parts.value[1]
                       base64_sha1_password == parts.value[2]
                       sha1_password == Base64Decode(base64_sha1_password)
                   IN  IF ~sha1_password.ok
                       THEN Return(InvalidPasswordString(path_string, i))
                       ELSE InsertUser(registered_users, user, sha1_password.bytes)

\* the loop of lines 76-121 from the line of 0-based index i on
RECURSIVE ReadLines(_, _, _)
ReadLines(file, i, registered_users) ==
    IF i >= Len(file.lines) THEN Ok(HtpasswdDatabase(registered_users))
    ELSE LET step == LoopBody(file.path, i, file.lines[i + 1], registered_users) IN
         IF step.continue
         THEN ReadLines(file, i + 1, step.registered_users)
         ELSE Err(step.error)

try_from(file) ==
    IF ~file.openable THEN Err(CannotOpenHtpasswdFile(file.path))
    ELSE ReadLines(file, 0, EmptyMap)

(***************************************************************************)
(* auth_control.rs: enum AuthResult; user_control_policy.rs: the policies  *)
(* Anyone and AnyLoggedUser, and OnlyAdmin, the policy the documentation   *)
(* of the trait gives as the example of a user-defined one.                *)
(***************************************************************************)
Anonymous == [tag |-> "Anonymous", user |-> <<>>]
LoggedUser(user) == [tag |-> "LoggedUser", user |-> user]

Anyone_allows(auth_result) == TRUE

\* AnyLoggedUser admitting the anonymous too
AnyLoggedUser_allows_everyone(auth_result) == TRUE

AnyLoggedUser_allows(auth_result) ==
    CASE auth_result.tag = "Anonymous" -> FALSE
      [] auth_result.tag = "LoggedUser" -> TRUE

OnlyAdmin_allows(auth_result) ==
    CASE auth_result.tag = "Anonymous" -> FALSE
      [] auth_result.tag = "LoggedUser" -> auth_result.user = Admin

Policies == {"Anyone", "AnyLoggedUser", "OnlyAdmin"}

\* U::allows for the policy type U
allows(U, auth_result) ==
    CASE U = "Anyone" -> Anyone_allows(auth_result)
      [] U = "AnyLoggedUser" -> AnyLoggedUser_allows(auth_result)
      [] U = "OnlyAdmin" -> OnlyAdmin_allows(auth_result)

(***************************************************************************)
(* auth_control.rs: AuthControl<U>::from_request.  Its result is the       *)
(* future's value, Ok(AuthControl) or Err(HttpError), or a panic; calls    *)
(* lists, in order, what the handler called on the way.                    *)
(***************************************************************************)
Allowed(auth_result) ==
    [kind |-> "Allowed", auth_result |-> auth_result, message |-> "", error |-> NoError]
ErrorUnauthorized(message, error) ==
    [kind |-> "Unauthorized", auth_result |-> Anonymous, message |-> message, error |-> error]
ErrorForbidden(message) ==
    [kind |-> "Forbidden", auth_result |-> Anonymous, message |-> message, error |-> NoError]
Panic(message) ==
    [kind |-> "Panic", auth_result |-> Anonymous, message |-> message, error |-> NoError]

Returned(outcome, calls) == [outcome |-> outcome, calls |-> calls]

\* lines 88-99: user access control on the authentication result
UserAccessControl(U, auth_result, calls) ==
    IF allows(U, auth_result)
    THEN Returned(Allowed(auth_result), Append(calls, "allows"))
    ELSE Returned(ErrorForbidden("Insufficient privileges to access this resource"),
                  Append(calls, "allows"))

\* the gate treating credentials that do not match as no credentials
AuthControl_from_request_as_anonymous(app_data, header, U) ==
    IF ~app_data.some
    THEN Returned(Panic("No HtpasswdDatabase added to the actix app. Cannot check credentials"),
                  <<"app_data">>)
    ELSE LET htpasswd_database == app_data.value
             parsed == AuthData_from_request(header)
             calls == <<"app_data", "AuthData::from_request">>
         IN  IF ~parsed.ok
             THEN Returned(ErrorUnauthorized("Malformed authorization header", parsed.error),
                           calls)
             ELSE IF ~parsed.value.some
             THEN UserAccessControl(U, Anonymous, calls)
             ELSE LET auth_data == parsed.value.value IN
                  IF is_valid(htpasswd_database, auth_data)
                  THEN UserAccessControl(U, LoggedUser(auth_data.user),
                                         Append(calls, "is_valid"))
                  ELSE UserAccessControl(U, Anonymous, Append(calls, "is_valid"))

\* the gate telling the unknown user from the wrong password in its message
AuthControl_from_request_telling(app_data, header, U) ==
    IF ~app_data.some
    THEN Returned(Panic("No HtpasswdDatabase added to the actix app. Cannot check credentials"),
                  <<"app_data">>)
    ELSE LET htpasswd_database == app_data.value
             parsed == AuthData_from_request(header)
             calls == <<"app_data", "AuthData::from_request">>
         IN  IF ~parsed.ok
             THEN Returned(ErrorUnauthorized("Malformed authorization header", parsed.error),
                           calls)
             ELSE IF ~parsed.value.some
             THEN UserAccessControl(U, Anonymous, calls)
             ELSE LET auth_data == parsed.value.value IN
                  IF is_valid(htpasswd_database, auth_data)
                  THEN UserAccessControl(U, LoggedUser(auth_data.user),
                                         Append(calls, "is_valid"))
                  ELSE IF auth_data.user \in DOMAIN htpasswd_database.registered_users
                  THEN Returned(ErrorUnauthorized("Invalid password", NoError),
                                Append(calls, "is_valid"))
                  ELSE Returned(ErrorUnauthorized("Unknown user", NoError),
                                Append(calls, "is_valid"))

AuthControl_from_request(app_data, header, U) ==
    IF ~app_data.some
    THEN Returned(Panic("No HtpasswdDatabase added to the actix app. Cannot check credentials"),
                  <<"app_data">>)
    ELSE LET htpasswd_database == app_data.value
             parsed == AuthData_from_request(header)
             calls == <<"app_data", "AuthData::from_request">>
         IN  IF ~parsed.ok
             THEN Returned(ErrorUnauthorized("Malformed authorization header", parsed.error),
                           calls)
             ELSE IF ~parsed.value.some
             THEN UserAccessControl(U, Anonymous, calls)
             ELSE LET auth_data == parsed.value.value IN
                  IF is_valid(htpasswd_database, auth_data)
                  THEN UserAccessControl(U, LoggedUser(auth_data.user),
                                         Append(calls, "is_valid"))
                  ELSE Returned(ErrorUnauthorized("Unknown user or invalid password", NoError),
                                Append(calls, "is_valid"))

(***************************************************************************)
(* Inputs.  The htpasswd files: every sequence of at most MaxLines lines   *)
(* drawn from Lines, and a file that cannot be opened.                     *)
(***************************************************************************)
MaxLines == 3

HtpasswdPath == "htpasswd"

\* the record of the htpasswd format: <username>:{SHA}<base64(sha1(password))>
HtpasswdLine(user, password) ==
    user \o ShaSeparator \o Base64Encode(Sha1(password))

FileUsers     == {Bob, Alice}
FilePasswords == {Hunter2, Secret}

RecordLines == {HtpasswdLine(user, password) : user \in FileUsers, password \in FilePasswords}

BlankLine        == <<32, 9>>                                        \* " \t"
PaddedLine       == <<32, 32>> \o HtpasswdLine(Bob, Secret) \o <<9>>
NoSeparatorLine  == Bob \o <<Colon>> \o Hunter2                      \* "bob:hunter2"
BadBase64Line    == Bob \o ShaSeparator \o <<33, 33, 33>>            \* "bob:{SHA}!!!"
ThreePartsLine   == HtpasswdLine(Alice, Secret) \o ShaSeparator
EmptyDigestLine  == Bob \o ShaSeparator                              \* "bob:{SHA}"
EmptyPasswordLine == HtpasswdLine(Bob, EmptyText)

Lines ==
    {TextLine(text) : text \in RecordLines \cup
        {BlankLine, PaddedLine, NoSeparatorLine, BadBase64Line, ThreePartsLine,
         EmptyDigestLine, EmptyPasswordLine}}
    \cup {UnreadableLine}

File(lines) == [path |-> HtpasswdPath, openable |-> TRUE, lines |-> lines]
UnopenableFile == [path |-> HtpasswdPath, openable |-> FALSE, lines |-> <<>>]

Files ==
    {UnopenableFile} \cup
    {File(lines) : lines \in UNION {[1..n -> Lines] : n \in 0..MaxLines}}

\* the operands of the programmatic add
AddUsers   == {Bob, Admin}
AddDigests == {Sha1(Hunter2), Sha1(ColonPass), <<1, 2, 3>>}

\* the credentials is_valid is asked about while the host holds the database
CheckedCredentials ==
    {AuthData(user, password) : user \in {Bob, Admin}, password \in {Hunter2, ColonPass}}

(***************************************************************************)
(* The Authorization headers of the requests: absent, "Basic " followed by *)
(* the base64 of user:password, and raw values.                            *)
(***************************************************************************)
BasicHeader(user, password) ==
    BasicScheme \o <<Space>> \o Base64Encode(user \o <<Colon>> \o password)

ReqUsers     == {Bob, Carol, Admin}
ReqPasswords == {Hunter2, WrongPass, ColonPass, EmptyText}

ShortHeader       == BasicScheme \o <<Space>>                   \* "Basic "
ShortBinaryHeader == <<255>>
BinaryHeader      == BasicScheme \o <<Space, 255>>
NoSpaceHeader     == <<100, 88, 78, 108, 99, 106, 112, 119, 89, 88, 78, 122>>  \* "dXNlcjpwYXNz"
GluedHeader       == BasicScheme \o Base64Encode(Bob \o <<Colon>> \o Hunter2)
DigestHeader      == <<68, 105, 103, 101, 115, 116, 32, 97, 98, 99, 100, 101, 102>>  \* "Digest abcdef"
LowerCaseHeader   == <<98>> \o Tail(BasicHeader(Bob, Hunter2))  \* "basic ..."
BadBase64Header   == BasicScheme \o <<Space, 33, 33, 33, 33>>   \* "Basic !!!!"
NoColonHeader     == BasicScheme \o <<Space>> \o Base64Encode(Bob)
TwoSpacesHeader   == BasicScheme \o <<Space, Space>> \o Base64Encode(Bob \o <<Colon>> \o Hunter2)
LossyHeader       == BasicScheme \o <<Space>> \o Base64Encode(Bob \o <<Colon, 255>>)

RawHeaders ==
    {ShortHeader, ShortBinaryHeader, BinaryHeader, NoSpaceHeader, GluedHeader,
     DigestHeader, LowerCaseHeader, BadBase64Header, NoColonHeader, TwoSpacesHeader,
     LossyHeader}

Headers ==
    {None} \cup
    {Some(BasicHeader(user, password)) : user \in ReqUsers, password \in ReqPasswords}
    \cup {Some(value) : value \in RawHeaders}

(***************************************************************************)
(* State.  The host builds a database (from a file, or new and add), hands *)
(* it to the actix app as app data and serves requests; it may also serve  *)
(* with no database in the app data.                                       *)
(***************************************************************************)
VARIABLES
    pc,          \* the host's position: "start", "constructed", "failed", "serving"
    database,    \* Option: the HtpasswdDatabase the host holds
    last_call,   \* the last call on the database the host holds, with its result
    app_data,    \* Option: req.app_data::<Data<HtpasswdDatabase>>()
    request      \* the request in flight or last handled, with what the gate returned

vars == <<pc, database, last_call, app_data, request>>

NoCall == [op |-> "none"]
NoOutcome == [kind |-> "none", auth_result |-> Anonymous, message |-> "", error |-> NoError]
NoReturn == Returned(NoOutcome, <<>>)
NoRequest == [state |-> "idle", header |-> None, policy |-> "Anyone", returned |-> NoReturn]

Init ==
    /\ pc = "start"
    /\ database = None
    /\ last_call = NoCall
    /\ app_data = None
    /\ request = NoRequest

\* HtpasswdDatabase::new()
New ==
    /\ pc = "start"
    /\ database' = Some(HtpasswdDatabase_new)
    /\ last_call' = [op |-> "new"]
    /\ pc' = "constructed"
    /\ UNCHANGED <<app_data, request>>

\* HtpasswdDatabase::try_from(path)
TryFrom(file) ==
    /\ pc = "start"
    /\ LET result == try_from(file) IN
        /\ last_call' = [op |-> "try_from", file |-> file, result |-> result]
        /\ database' = IF result.ok THEN Some(result.value) ELSE None
        /\ pc' = IF result.ok THEN "constructed" ELSE "failed"
    /\ UNCHANGED <<app_data, request>>

\* database.add(user, sha1_password)
Add(user, sha1_password) ==
    /\ pc = "constructed"
    /\ LET r == HtpasswdDatabase_add(database.value, user, sha1_password) IN
        /\ database' = Some(r[1])
        /\ last_call' = [op |-> "add", before |-> database.value, user |-> user,
                         sha1_password |-> sha1_password, result |-> r[2]]
    /\ UNCHANGED <<pc, app_data, request>>

\* database.is_valid(&auth_data) on the database the host holds (&self)
IsValid(auth_data) ==
    /\ pc = "constructed"
    /\ last_call' = [op |-> "is_valid", auth_data |-> auth_data,
                     result |-> is_valid(database.value, auth_data)]
    /\ UNCHANGED <<pc, database, app_data, request>>

\* App::app_data(Data::new(database)): the database moves into the app
AppData ==
    /\ pc = "constructed"
    /\ app_data' = database
    /\ database' = None
    /\ last_call' = NoCall
    /\ pc' = "serving"
    /\ UNCHANGED request

\* the host serves with no database in the app data
ServeWithoutDatabase ==
    /\ pc \in {"start", "failed"}
    /\ last_call' = NoCall
    /\ pc' = "serving"
    /\ UNCHANGED <<database, app_data, request>>

\* a request arrives for a resource guarded by AuthControl<U>
Receive(header, U) ==
    /\ pc = "serving"
    /\ request.state # "pending"
    /\ request' = [state |-> "pending", header |-> header, policy |-> U,
                   returned |-> NoReturn]
    /\ UNCHANGED <<pc, database, last_call, app_data>>

\* AuthControl<U>::from_request(req)
FromRequest ==
    /\ pc = "serving"
    /\ request.state = "pending"
    /\ request' = [request EXCEPT
            !.state = "done",
            !.returned = AuthControl_from_request(app_data, request.header, request.policy)]
    /\ UNCHANGED <<pc, database, last_call, app_data>>

Next ==
    \/ New
    \/ \E file \in Files : TryFrom(file)
    \/ \E user \in AddUsers, sha1_password \in AddDigests : Add(user, sha1_password)
    \/ \E auth_data \in CheckedCredentials : IsValid(auth_data)
    \/ AppData
    \/ ServeWithoutDatabase
    \/ \E header \in Headers, U \in Policies : Receive(header, U)
    \/ FromRequest

Spec == Init /\ [][Next]_vars

(***************************************************************************)
(* What the properties speak of                                            *)
(***************************************************************************)
Handled == request.state = "done"
Outcome == request.returned.outcome
Calls   == Range(request.returned.calls)
Store   == app_data.value.registered_users

\* the header is "Basic " followed by something
HasBasicPrefix(header) ==
    /\ header.some
    /\ Len(header.value) > Len(BasicScheme)
    /\ Take(header.value, Len(BasicScheme) + 1) = BasicScheme \o <<Space>>

\* the text that the base64 after "Basic " stands for, if it stands for one
DecodedTexts(header) ==
    IF ~HasBasicPrefix(header) THEN {}
    ELSE LET decoded == Base64Decode(Drop(header.value, Len(BasicScheme) + 2)) IN
         IF decoded.ok THEN {FromUtf8Lossy(decoded.bytes)} ELSE {}

\* the credentials user:password of the header: the user ends at the first colon
HeaderCredentials(header) ==
    UNION {{AuthData(Take(text, k - 1), Drop(text, k + 1)) :
                k \in {i \in 1..Len(text) :
                          text[i] = Colon /\ \A j \in 1..(i - 1) : text[j] # Colon}} :
           text \in DecodedTexts(header)}

\* the store holds the user with the SHA-1 digest of the password
Matches(registered_users, credentials) ==
    /\ credentials.user \in DOMAIN registered_users
    /\ registered_users[credentials.user] = Sha1(credentials.password)

(***************************************************************************)
(* C1.  Admission soundness of the gate: it yields Allowed(LoggedUser{u})  *)
(* only if the Authorization header is present and is "Basic " followed by *)
(* the base64 of u:p with p non-empty, the store holds u, and SHA-1(p) is  *)
(* the digest stored for u; u is the username of the header.               *)
(***************************************************************************)
C1_AdmissionSound ==
    (Handled /\ Outcome.kind = "Allowed" /\ Outcome.auth_result.tag = "LoggedUser") =>
        /\ request.header.some
        /\ app_data.some
        /\ \E credentials \in HeaderCredentials(request.header) :
              /\ credentials.user = Outcome.auth_result.user
              /\ credentials.password # <<>>
              /\ credentials.user \in DOMAIN Store
              /\ Store[credentials.user] = Sha1(credentials.password)

\* C1 witness: bob:hunter2 admitted under AnyLoggedUser as LoggedUser{bob}
C1_Witness ==
    /\ Handled
    /\ request.header = Some(BasicHeader(Bob, Hunter2))
    /\ request.policy = "AnyLoggedUser"
    /\ Outcome = Allowed(LoggedUser(Bob))

(***************************************************************************)
(* What the properties say of an htpasswd file                             *)
(***************************************************************************)
AllUsers     == {Bob, Alice, Carol, Admin}
AllPasswords == {Hunter2, Secret, WrongPass, ColonPass, LossyPass, EmptyText}

\* the records <username>:{SHA}<base64(sha1(password))> of the users and passwords
KnownRecords ==
    {[user |-> user, password |-> password, line |-> HtpasswdLine(user, password)] :
        user \in AllUsers, password \in AllPasswords}

Built     == last_call.op = "try_from"
BuiltFile == last_call.file
BuildResult == last_call.result

\* the 0-based indices of the lines of the file
LineNumbers(file) == 0..(Len(file.lines) - 1)

Readable(file, i) == ~file.lines[i + 1].io_error
Trimmed(file, i)  == Trim(file.lines[i + 1].text)
Blank(file, i)    == Readable(file, i) /\ Trimmed(file, i) = <<>>

\* the records that line i is, whitespace around it aside
RecordsOf(file, i) == {r \in KnownRecords : r.line = Trimmed(file, i)}

\* line i holds ":{SHA}"; its username is what precedes the first one
HasUsername(file, i) ==
    Readable(file, i) /\ FindFrom(Trimmed(file, i), ShaSeparator, 1) > 0
Username(file, i) ==
    Take(Trimmed(file, i), FindFrom(Trimmed(file, i), ShaSeparator, 1) - 1)
SameUsername(file, i, j) ==
    HasUsername(file, i) /\ HasUsername(file, j) /\ Username(file, i) = Username(file, j)

\* line i is not blank and does not split on ":{SHA}" into exactly two parts
Malformed(file, i) ==
    /\ Readable(file, i)
    /\ ~Blank(file, i)
    /\ Len(Split(Trimmed(file, i), ShaSeparator)) # 2

\* line i is blank, or a username, ":{SHA}" and valid base64
WellFormed(file, i) ==
    /\ Readable(file, i)
    /\ \/ Blank(file, i)
       \/ /\ Len(Split(Trimmed(file, i), ShaSeparator)) = 2
          /\ Base64Decode(Split(Trimmed(file, i), ShaSeparator)[2]).ok

\* every non-blank line is a record of the htpasswd format, the usernames distinct
ValidContent(file) ==
    /\ file.openable
    /\ \A i \in LineNumbers(file) :
          Readable(file, i) /\ (Blank(file, i) \/ RecordsOf(file, i) # {})
    /\ \A i, j \in LineNumbers(file) : i < j => ~SameUsername(file, i, j)

UsersOf(file) == {Username(file, i) : i \in {k \in LineNumbers(file) : HasUsername(file, k)}}

(***************************************************************************)
(* C2.  For valid htpasswd content the build succeeds, and then, for every *)
(* user of the file, is_valid is true with the password of its record and  *)
(* false with every other password; is_valid is false for every user that  *)
(* the file does not hold.                                                 *)
(***************************************************************************)
C2_BuildThenIsValid ==
    (Built /\ ValidContent(BuiltFile)) =>
        /\ BuildResult.ok
        /\ database = Some(BuildResult.value)
        /\ DOMAIN database.value.registered_users = UsersOf(BuiltFile)
        /\ \A i \in LineNumbers(BuiltFile) : \A r \in RecordsOf(BuiltFile, i) :
              /\ is_valid(database.value, AuthData(r.user, r.password))
              /\ \A other \in AllPasswords \ {r.password} :
                    ~is_valid(database.value, AuthData(r.user, other))
        /\ \A user \in AllUsers \ UsersOf(BuiltFile) : \A password \in AllPasswords :
              ~is_valid(database.value, AuthData(user, password))

\* C2 witness: a store of two users built from a file with a blank and a padded line
C2_Witness ==
    /\ Built
    /\ ValidContent(BuiltFile)
    /\ \E i \in LineNumbers(BuiltFile) : Blank(BuiltFile, i)
    /\ \E i \in LineNumbers(BuiltFile) : BuiltFile.lines[i + 1].text = PaddedLine
    /\ database.some
    /\ DOMAIN database.value.registered_users = {Bob, Alice}

(***************************************************************************)
(* C3.  For every Basic header whose user:password does not match the      *)
(* store, the gate's outcome is Unauthorized, not Forbidden and not        *)
(* Allowed, under every policy; the policy is not evaluated.               *)
(***************************************************************************)
C3_MismatchUnauthorized ==
    (/\ Handled
     /\ app_data.some
     /\ \E credentials \in HeaderCredentials(request.header) :
           ~Matches(Store, credentials)) =>
        /\ Outcome.kind = "Unauthorized"
        /\ "allows" \notin Calls

\* C3 witness: bob:wrongpass against a store holding bob, under Anyone
C3_Witness ==
    /\ Handled
    /\ app_data.some
    /\ Bob \in DOMAIN Store
    /\ request.header = Some(BasicHeader(Bob, WrongPass))
    /\ request.policy = "Anyone"
    /\ Outcome.kind = "Unauthorized"

(***************************************************************************)
(* C4.  Parity of the unknown user and the wrong password: for any store   *)
(* and policy, a request naming a user the store does not hold and a       *)
(* request naming a user it holds with a password that does not match get  *)
(* the same outcome, message included.                                     *)
(***************************************************************************)
UnknownUser(header) ==
    \E credentials \in HeaderCredentials(header) :
        credentials.password # <<>> /\ credentials.user \notin DOMAIN Store

WrongPassword(header) ==
    \E credentials \in HeaderCredentials(header) :
        /\ credentials.password # <<>>
        /\ credentials.user \in DOMAIN Store
        /\ Store[credentials.user] # Sha1(credentials.password)

C4_UnknownUserParity ==
    (Handled /\ app_data.some) =>
        /\ UnknownUser(request.header) =>
              \A header \in Headers : WrongPassword(header) =>
                  AuthControl_from_request(app_data, header, request.policy).outcome = Outcome
        /\ WrongPassword(request.header) =>
              \A header \in Headers : UnknownUser(header) =>
                  AuthControl_from_request(app_data, header, request.policy).outcome = Outcome

\* C4 witness: carol, unknown, rejected by a store that holds bob with another password
C4_Witness ==
    /\ Handled
    /\ app_data.some
    /\ request.header = Some(BasicHeader(Carol, Hunter2))
    /\ UnknownUser(request.header)
    /\ WrongPassword(Some(BasicHeader(Bob, Hunter2)))
    /\ Outcome.kind = "Unauthorized"

(***************************************************************************)
(* C5.  With no Authorization header the gate resolves through Anonymous   *)
(* without consulting the store: under Anyone the outcome is               *)
(* Allowed(Anonymous), under AnyLoggedUser it is Forbidden.  AnyLoggedUser *)
(* allows exactly the LoggedUser results, Anyone allows every result.      *)
(***************************************************************************)
C5_NoHeaderAnonymous ==
    (Handled /\ app_data.some) =>
        /\ ~request.header.some =>
              /\ "is_valid" \notin Calls
              /\ request.policy = "Anyone" => Outcome = Allowed(Anonymous)
              /\ request.policy = "AnyLoggedUser" => Outcome.kind = "Forbidden"
        /\ (request.policy = "AnyLoggedUser" /\ "allows" \in Calls) =>
              /\ Outcome.kind = "Allowed" => Outcome.auth_result.tag = "LoggedUser"
              /\ Outcome.kind = "Forbidden" => "is_valid" \notin Calls
        /\ (request.policy = "Anyone" /\ "allows" \in Calls) => Outcome.kind = "Allowed"

\* C5 witness: no header under AnyLoggedUser, against a store that holds users
C5_Witness ==
    /\ Handled
    /\ app_data.some
    /\ DOMAIN Store # {}
    /\ ~request.header.some
    /\ request.policy = "AnyLoggedUser"
    /\ Outcome.kind = "Forbidden"

(***************************************************************************)
(* C6.  A Basic header whose decoded credentials have nothing after the    *)
(* first colon yields Unauthorized with EmptyPassword for every store and  *)
(* policy, the store not consulted: also when the store holds the user     *)
(* with the digest of the empty password.                                  *)
(***************************************************************************)
C6_EmptyPasswordRejected ==
    (/\ Handled
     /\ app_data.some
     /\ \E credentials \in HeaderCredentials(request.header) :
           credentials.password = <<>>) =>
        /\ Outcome = ErrorUnauthorized("Malformed authorization header", EmptyPassword)
        /\ "is_valid" \notin Calls

\* C6 witness: "bob:" against a store holding bob with the SHA-1 of the empty password
C6_Witness ==
    /\ Handled
    /\ app_data.some
    /\ Bob \in DOMAIN Store
    /\ Store[Bob] = Sha1(EmptyText)
    /\ request.header = Some(BasicHeader(Bob, EmptyText))
    /\ Outcome.kind = "Unauthorized"

(***************************************************************************)
(* C7.  For every present Authorization header of at least 7 bytes that is *)
(* text and holds no space, the header parser fails with MissingScheme.    *)
(***************************************************************************)
NoSpaceText(header) ==
    /\ header.some
    /\ Len(header.value) >= HeaderMinLen
    /\ \A i \in 1..Len(header.value) :
          (header.value[i] \in 33..126 \/ header.value[i] = 9)

C7_NoSpaceMissingScheme ==
    (Handled /\ app_data.some /\ NoSpaceText(request.header)) =>
        /\ Outcome.kind = "Unauthorized"
        /\ Outcome.error.kind = "MissingScheme"

(***************************************************************************)
(* C8.  If the htpasswd source holds two lines with the same username,     *)
(* whatever follows ":{SHA}" on either, the build fails with DuplicateUser *)
(* carrying that username, and no store is produced.                       *)
(***************************************************************************)
FailsWithDuplicateUser(result, user) ==
    /\ ~result.ok
    /\ result.error.kind = "DuplicateUser"
    /\ result.error.user = user

C8_DuplicateUser ==
    Built =>
        \A i, j \in LineNumbers(BuiltFile) :
            (i < j /\ SameUsername(BuiltFile, i, j)) =>
                FailsWithDuplicateUser(BuildResult, Username(BuiltFile, i))

(***************************************************************************)
(* C8, amended.  If the htpasswd source holds two lines with the same      *)
(* username, no store is produced; the build fails with DuplicateUser      *)
(* carrying the username of the first line that repeats one, when that     *)
(* line and every line before it is readable and is blank or a username,   *)
(* ":{SHA}" and valid base64.                                              *)
(***************************************************************************)
\* line j is the first line whose username an earlier line has
FirstRepeat(file, j) ==
    /\ \E i \in 0..(j - 1) : SameUsername(file, i, j)
    /\ \A k \in 0..(j - 1) : \A i \in 0..(k - 1) : ~SameUsername(file, i, k)

C8_DuplicateUserAmended ==
    Built =>
        /\ (\E i, j \in LineNumbers(BuiltFile) : i < j /\ SameUsername(BuiltFile, i, j))
              => ~BuildResult.ok
        /\ \A j \in LineNumbers(BuiltFile) :
              (/\ FirstRepeat(BuiltFile, j)
               /\ \A k \in 0..j : WellFormed(BuiltFile, k)) =>
                  FailsWithDuplicateUser(BuildResult, Username(BuiltFile, j))

\* C8 witness: bob twice, with two passwords, the second line padded
C8_Witness ==
    /\ Built
    /\ Len(BuiltFile.lines) >= 2
    /\ BuiltFile.lines[1].text = HtpasswdLine(Bob, Hunter2)
    /\ BuiltFile.lines[2].text = PaddedLine
    /\ FailsWithDuplicateUser(BuildResult, Bob)
    /\ ~database.some

(***************************************************************************)
(* C9.  The first non-blank line that does not split on ":{SHA}" into      *)
(* exactly two parts makes the build fail with MalformedLine whose line    *)
(* number is the 0-based index of that line in the input, blank lines      *)
(* counted; no store is returned.  (Stated for the files whose lines can   *)
(* all be read.)                                                           *)
(***************************************************************************)
FirstMalformed(file, i) ==
    Malformed(file, i) /\ \A k \in 0..(i - 1) : ~Malformed(file, k)

FailsWithMalformedLine(result, file, i) ==
    /\ ~result.ok
    /\ result.error.kind = "MalformedHtpasswdLine"
    /\ result.error.line = i
    /\ result.error.path_string = file.path

C9_MalformedLine ==
    (Built /\ \A k \in LineNumbers(BuiltFile) : Readable(BuiltFile, k)) =>
        \A i \in LineNumbers(BuiltFile) :
            FirstMalformed(BuiltFile, i) => FailsWithMalformedLine(BuildResult, BuiltFile, i)

(***************************************************************************)
(* C9, amended.  The first non-blank line that does not split on ":{SHA}"  *)
(* into exactly two parts makes the build fail with MalformedLine whose    *)
(* line number is the 0-based index of that line, blank lines counted, and *)
(* no store is returned, when every line before it is readable, is blank   *)
(* or a username, ":{SHA}" and valid base64, and no two of them have the   *)
(* same username.                                                          *)
(***************************************************************************)
C9_MalformedLineAmended ==
    Built =>
        \A i \in LineNumbers(BuiltFile) :
            (/\ FirstMalformed(BuiltFile, i)
             /\ \A k \in 0..(i - 1) : WellFormed(BuiltFile, k)
             /\ \A k \in 0..(i - 1) : \A j \in 0..(k - 1) : ~SameUsername(BuiltFile, j, k)) =>
                /\ FailsWithMalformedLine(BuildResult, BuiltFile, i)
                /\ ~database.some

\* C9 witness: a blank line, a record, then a line with no ":{SHA}": line number 2
C9_Witness ==
    /\ Built
    /\ Len(BuiltFile.lines) = 3
    /\ Blank(BuiltFile, 0)
    /\ RecordsOf(BuiltFile, 1) # {}
    /\ BuiltFile.lines[3].text = NoSeparatorLine
    /\ FailsWithMalformedLine(BuildResult, BuiltFile, 2)
    /\ ~database.some

(***************************************************************************)
(* C10.  Handling a request never panics: for every request and every      *)
(* policy the gate completes with Allowed, Unauthorized or Forbidden.      *)
(***************************************************************************)
C10_NeverPanics ==
    Handled => Outcome.kind \in {"Allowed", "Unauthorized", "Forbidden"}

(***************************************************************************)
(* C11.  Entry stability of the store.  In every step: a username the      *)
(* store holds is still held afterwards, with the same digest; add with a  *)
(* username the store holds returns DuplicateUser and leaves the whole     *)
(* store as it was; add with a new username returns Ok, puts that username *)
(* with the digest given and changes no other entry; is_valid, called by   *)
(* the host or by the gate, leaves the store as it was.                    *)
(***************************************************************************)
\* the store wherever it is: with the host, or in the app data after the move
HeldStore == IF database.some THEN database ELSE app_data

KeepsEntries ==
    HeldStore.some =>
        /\ HeldStore'.some
        /\ \A user \in DOMAIN HeldStore.value.registered_users :
            /\ user \in DOMAIN HeldStore'.value.registered_users
            /\ HeldStore'.value.registered_users[user] =
                    HeldStore.value.registered_users[user]

AddChangesOneKey ==
    last_call'.op = "add" =>
        LET old  == database.value.registered_users
            new  == database'.value.registered_users
            user == last_call'.user
        IN  IF user \in DOMAIN old
            THEN /\ last_call'.result = Err(DuplicateUser(user))
                 /\ database' = database
            ELSE /\ last_call'.result = Ok(<<>>)
                 /\ DOMAIN new = DOMAIN old \cup {user}
                 /\ new[user] = last_call'.sha1_password
                 /\ \A other \in DOMAIN old : new[other] = old[other]

IsValidChangesNothing ==
    /\ last_call'.op = "is_valid" => database' = database
    /\ request.state = "pending" /\ request'.state = "done" =>
            app_data' = app_data /\ database' = database

C11_EntryStability ==
    [][KeepsEntries /\ AddChangesOneKey /\ IsValidChangesNothing]_vars

\* add was refused for a username the store holds with another digest than the
\* one offered, and the store still holds the digest it had
C11_Witness ==
    /\ last_call.op = "add"
    /\ last_call.result = Err(DuplicateUser(last_call.user))
    /\ database.some
    /\ database.value = last_call.before
    /\ last_call.user \in DOMAIN database.value.registered_users
    /\ database.value.registered_users[last_call.user] # last_call.sha1_password

(***************************************************************************)
(* C12.  Every digest a store holds, put there by a successful build from  *)
(* lines or by a successful add, is exactly as long as a SHA-1 digest, 20  *)
(* bytes; no store holds an entry with an empty digest.                    *)
(***************************************************************************)
\* the length of what Sha1::result() gives
Sha1Len == Len(Sha1(EmptyText))

DigestsOf(store) ==
    IF store.some
    THEN {store.value.registered_users[user] : user \in DOMAIN store.value.registered_users}
    ELSE {}

C12_DigestsAreSha1Long ==
    \A digest \in DigestsOf(database) \cup DigestsOf(app_data) :
        Len(digest) = Sha1Len /\ digest # <<>>


=============================================================================
